---- MODULE Spec2Model ----
(***************************************************************************)
(* Model of the BuildKite -> OpenTelemetry exporter daemon.                *)
(*                                                                         *)
(*   daemon.go        loadCache, writeCache, processBuildKite              *)
(*   main.go          main (the daemon loop)                               *)
(*   build.go         processBuild (one worker goroutine per build)        *)
(*   unnamed/part_000 processJob                                           *)
(*                                                                         *)
(* The BuildKite API and the tracing SDK are external: the listing is a    *)
(* nondeterministic input of the pagination loop, the tracer is a log of   *)
(* the calls made on it.                                                   *)
(***************************************************************************)
EXTENDS Integers, Sequences, FiniteSets, TLC

\* ------------------------------------------------------------------------
\* Bounds of the model
\* ------------------------------------------------------------------------

\* timestamps are 0..MaxTime
MaxTime == 2

\* BuildKiteMaxPagination (100 in the program), scaled down
PerPage == 2

\* highest page number the provider hands out as NextPage
MaxPages == 3

\* longest b.Jobs of the builds a worker is followed on
MaxJobs == 2

\* size of the bufio.Writer buffer (4096 in the Go library), scaled down
BufSize == 4
\* the most bytes a failing final flush gets to the file
MaxFlushed == 0
\* builds of the pipeline at the provider
MaxUpstream == 5

\* ------------------------------------------------------------------------
\* Values
\* ------------------------------------------------------------------------

\* a nil *Timestamp / nil pointer field
None == -1

Times == 0..MaxTime

\* time.Now().AddDate(0, -2, 0) at process start
InitialWatermark == 1

NL == "\n"

\* build ids are fixed-length strings (UUIDs in BuildKite), as character
\* sequences so that the cache file's text format is modelled as text
BuildIDs == { <<"a", "a">>, <<"a", "b">> }

Max(a, b) == IF a >= b THEN a ELSE b


VARIABLES
    pc,              \* position of the main goroutine
    lastFinishedAt,  \* the package-level watermark (daemon.go:20)
    cacheFile,       \* contents of CachePath, a sequence of characters
    foffset,         \* file offset of the open descriptor f
    cachedBuildIDs,  \* the in-memory set of processBuildKite
    runFinishedAt,   \* local of processBuildKite
    page,            \* local of processBuildKite
    respNextPage,    \* resp.NextPage of the page being ranged over
    idx,             \* builds of the current page already ranged over
    workers,         \* goroutines started with "go processBuild", in order
    towrite,         \* keys writeCache's range has not visited yet
    wbuf,            \* bytes buffered in writeCache's bufio.Writer
    lastCall,        \* the latest ListByPipeline call and its outcome
    listed,          \* ids the listing returned in the current cycle
    prevListed,      \* ids the listing returned in the previous cycle
    loaded,          \* the set loadCache returned at the start of the cycle
    werr,            \* the storage step of the run that failed, "" if none yet
    upstream,        \* the builds of the pipeline that are terminal at the provider
    completed,       \* ids whose worker ran to completion (kept by the backend)
    wpc,             \* position of the worker goroutine followed step by step
    wb,              \* the build that worker was started with
    wi,              \* jobs of wb the worker has ranged over
    wcalls           \* the calls that worker has made on the tracer, in order

cycleVars == << pc, lastFinishedAt, cacheFile, foffset, cachedBuildIDs,
                runFinishedAt, page, respNextPage, idx, workers, towrite, wbuf,
                lastCall, listed, prevListed, loaded, werr, upstream, completed >>

workerVars == << wpc, wb, wi, wcalls >>

vars == << cycleVars, workerVars >>

\* ------------------------------------------------------------------------
\* The cache file as text (daemon.go: loadCache, writeCache)
\* ------------------------------------------------------------------------

CR == "\r"

\* a byte of a hole left by writing past the end of a file
NUL == "NUL"

\* bufio.ScanLines drops one trailing carriage return of a line
DropCR(line) ==
    IF Len(line) > 0 /\ line[Len(line)] = CR
    THEN SubSeq(line, 1, Len(line) - 1)
    ELSE line

\* the tokens bufio.Scanner yields for the text s from position i on, cur
\* being the line read so far: lines end at "\n", a last line without
\* "\n" is a token when it is not empty
RECURSIVE ScanLines(_, _, _)
ScanLines(s, i, cur) ==
    IF i > Len(s)
    THEN IF cur = << >> THEN << >> ELSE << DropCR(cur) >>
    ELSE IF s[i] = NL
         THEN << DropCR(cur) >> \o ScanLines(s, i + 1, << >>)
         ELSE ScanLines(s, i + 1, Append(cur, s[i]))

\* loadCache: one map key per scanned line
loadCache(file) ==
    LET lines == ScanLines(file, 1, << >>)
    IN  { lines[i] : i \in 1..Len(lines) }

\* os.File.Write of data at offset off (bytes between the end of the file
\* and off read back as NUL)
WriteAt(file, off, data) ==
    LET padded == IF Len(file) < off
                  THEN file \o [i \in 1..(off - Len(file)) |-> NUL]
                  ELSE file
        n == Max(Len(padded), off + Len(data))
    IN  [i \in 1..n |-> IF i > off /\ i <= off + Len(data)
                        THEN data[i - off]
                        ELSE padded[i]]

\* bufio.Writer.Flush: the buffered bytes go to the file at its offset
BufFlush(st) ==
    [buf  |-> << >>,
     file |-> IF st.buf = << >> THEN st.file ELSE WriteAt(st.file, st.off, st.buf),
     off  |-> st.off + Len(st.buf)]

\* a writer that forgets what it has buffered instead of flushing it
BufWriteStringForgetful(st, s) == [st EXCEPT !.buf = s]

\* bufio.Writer.WriteString(s): while s does not fit, fill the buffer and
\* flush it; then buffer the rest
RECURSIVE BufWriteString(_, _)
BufWriteString(st, s) ==
    LET avail == BufSize - Len(st.buf)
    IN  IF Len(s) > avail
        THEN BufWriteString(
                 BufFlush([st EXCEPT !.buf = st.buf \o SubSeq(s, 1, avail)]),
                 SubSeq(s, avail + 1, Len(s)))
        ELSE [st EXCEPT !.buf = st.buf \o s]


\* ------------------------------------------------------------------------
\* Build and job records (buildkite.Build, buildkite.Job)
\* ------------------------------------------------------------------------

\* a nil *string
Nil == "<nil>"

NoAgent == [Name |-> Nil, Hostname |-> Nil, IPAddress |-> Nil, Version |-> Nil,
            Metadata |-> << >>]

\* a job with the given name, state and timestamps, every other optional
\* field absent
MkJob(name, state, started, finished) ==
    [Name |-> name, State |-> state, StartedAt |-> started, FinishedAt |-> finished,
     CreatedAt |-> None, ScheduledAt |-> None, RunnableAt |-> None,
     RetriesCount |-> 0, Retried |-> FALSE, SoftFailed |-> FALSE,
     LogsURL |-> Nil, StepKey |-> Nil, ExitStatus |-> None, Agent |-> NoAgent]

\* a build with the given id, state, timestamps and jobs, every other
\* optional field absent
MkBuild(id, number, state, started, finished, jobs) ==
    [ID |-> id, Number |-> number, State |-> state,
     StartedAt |-> started, FinishedAt |-> finished, ScheduledAt |-> None,
     Commit |-> Nil, Branch |-> Nil, Author |-> Nil, WebURL |-> Nil,
     MetaData |-> { }, Jobs |-> jobs]


\* ------------------------------------------------------------------------
\* The span builder (build.go: processBuild, unnamed/part_000: processJob)
\* ------------------------------------------------------------------------

\* one call on the tracing SDK.  span 0 is the build span, span i the span
\* of the i-th job; parent -1 is the context the worker was started with.
Call(op, span, key, val, ts, parent) ==
    [op |-> op, span |-> span, key |-> key, val |-> val, ts |-> ts, parent |-> parent]

StartCall(span, name, ts, parent) == Call("Start", span, name, Nil, ts, parent)
EventCall(span, name, ts)         == Call("AddEvent", span, name, Nil, ts, None)
AttrCall(span, key, val)          == Call("SetAttributes", span, key, val, None, None)
StatusCall(span, code, msg)       == Call("SetStatus", span, code, msg, None, None)
EndCall(span, ts)                 == Call("End", span, Nil, Nil, ts, None)

\* the calls made when cond holds
When(cond, calls) == IF cond THEN calls ELSE << >>

DigitStr(d) ==
    CASE d = 0 -> "0" [] d = 1 -> "1" [] d = 2 -> "2" [] d = 3 -> "3" [] d = 4 -> "4"
      [] d = 5 -> "5" [] d = 6 -> "6" [] d = 7 -> "7" [] d = 8 -> "8" [] d = 9 -> "9"

\* fmt.Sprintf("%d", n) for n >= 0
RECURSIVE Itoa(_)
Itoa(n) == IF n < 10 THEN DigitStr(n) ELSE Itoa(n \div 10) \o DigitStr(n % 10)

\* the switch with its "finished" label dropped
StatusCodeNoFinished(state) ==
    CASE state = "failed" -> "Error"
      [] state = "passed" -> "Ok"
      [] OTHER -> "Unset"

\* the switch on *State of both processBuild and processJob
StatusCode(state) ==
    CASE state = "failed" -> "Error"
      [] state \in {"passed", "finished"} -> "Ok"
      [] OTHER -> "Unset"

StateCalls(span, state) ==
    When(state # Nil,
         << AttrCall(span, "state", state),
            StatusCall(span, StatusCode(state), state) >>)

\* timestamps of the model are milliseconds; a time.Duration is nanoseconds
NsPerMs == 1000000

NsPerUs == 1000

\* time.Time.Sub
Sub(t, u) == (t - u) * NsPerMs

\* time.Duration.Microseconds (integer division truncating toward zero)
Microseconds(d) == IF d >= 0 THEN d \div NsPerUs ELSE -((-d) \div NsPerUs)

\* strings.SplitN(m, "=", 2) in its place: m cut at its first "=" only
RECURSIVE SplitEqFirst(_, _, _)
SplitEqFirst(m, i, cur) ==
    IF i > Len(m)
    THEN << cur >>
    ELSE IF m[i] = "="
         THEN << cur, SubSeq(m, i + 1, Len(m)) >>
         ELSE SplitEqFirst(m, i + 1, Append(cur, m[i]))

\* strings.Split(m, "="): the pieces of m between the "=" characters, m
\* being a sequence of characters; cur is the piece read so far
RECURSIVE SplitEq(_, _, _)
SplitEq(m, i, cur) ==
    IF i > Len(m)
    THEN << cur >>
    ELSE IF m[i] = "="
         THEN << cur >> \o SplitEq(m, i + 1, << >>)
         ELSE SplitEq(m, i + 1, Append(cur, m[i]))

\* a sequence of characters as a string
RECURSIVE Str(_)
Str(cs) == IF cs = << >> THEN "" ELSE cs[1] \o Str(Tail(cs))

\* the loop over j.Agent.Metadata
RECURSIVE AgentMetadataCalls(_, _, _)
AgentMetadataCalls(span, meta, k) ==
    IF k > Len(meta)
    THEN << >>
    ELSE LET token == SplitEq(meta[k], 1, << >>)
         IN  When(Len(token) = 2,
                  << AttrCall(span, "agent_" \o Str(token[1]), Str(token[2])) >>)
             \o AgentMetadataCalls(span, meta, k + 1)

\* the context processBuild was called with
Ctx == -1

\* buildCtx, the context tracer.Start returns with the build span (span 0)
BuildCtx == 0

\* job spans started in the context the worker was given
JobCtxOuter == Ctx

\* the context processBuild hands to processJob (build.go:77)
JobCtx == BuildCtx

\* processJob(ctx, buildNumber, j) for the i-th job of a build: the calls it
\* makes on the tracer, and whether it panics (the nil dereference *j.Name)
processJob(i, j) ==
    IF j.StartedAt = None \/ j.FinishedAt = None
    THEN [calls |-> << >>, panic |-> FALSE]
    ELSE IF j.Name = Nil
    THEN [calls |-> << >>, panic |-> TRUE]
    ELSE [panic |-> FALSE,
          calls |->
            << StartCall(i, j.Name, j.StartedAt, JobCtx) >>
            \o When(j.ScheduledAt # None /\ j.CreatedAt # None,
                    << AttrCall(i, "schedule_duration_ms",
                                Microseconds(Sub(j.CreatedAt, j.ScheduledAt))) >>)
            \o When(j.CreatedAt # None /\ j.RunnableAt # None,
                    << AttrCall(i, "create_duration_ms",
                                Microseconds(Sub(j.RunnableAt, j.CreatedAt))) >>)
            \o When(j.RunnableAt # None,
                    << AttrCall(i, "runnable_duration_ms",
                                Microseconds(Sub(j.StartedAt, j.RunnableAt))) >>)
            \o StateCalls(i, j.State)
            \o << AttrCall(i, "retry_count", j.RetriesCount),
                  AttrCall(i, "retried", j.Retried),
                  AttrCall(i, "soft_failed", j.SoftFailed) >>
            \o When(j.LogsURL # Nil, << AttrCall(i, "url", j.LogsURL) >>)
            \o When(j.StepKey # Nil, << AttrCall(i, "step_key", j.StepKey) >>)
            \o When(j.ExitStatus # None, << AttrCall(i, "exit_status", j.ExitStatus) >>)
            \o When(j.Agent.Name # Nil, << AttrCall(i, "agent_name", j.Agent.Name) >>)
            \o When(j.Agent.Hostname # Nil,
                    << AttrCall(i, "agent_hostname", j.Agent.Hostname) >>)
            \o When(j.Agent.IPAddress # Nil, << AttrCall(i, "agent_ip", j.Agent.IPAddress) >>)
            \o When(j.Agent.Version # Nil,
                    << AttrCall(i, "agent_version", j.Agent.Version) >>)
            \o AgentMetadataCalls(i, j.Agent.Metadata, 1)
            \o << EndCall(i, j.FinishedAt) >>]

\* the early return of processBuild
BuildSkipped(b) == b.StartedAt = None \/ b.FinishedAt = None

\* the entries of b.MetaData in the order the range visits them (the model
\* keeps to maps of at most one entry, Go's order being unspecified)
RECURSIVE MetaDataCalls(_)
MetaDataCalls(m) ==
    IF m = { }
    THEN << >>
    ELSE LET e == CHOOSE x \in m : TRUE
         IN  When(e.isString, << AttrCall(0, "build_" \o e.key, e.val) >>)
             \o MetaDataCalls(m \ {e})

\* processBuild from tracer.Start up to the loop over b.Jobs
BuildHeadCalls(b) ==
    << StartCall(0, Itoa(b.Number), b.StartedAt, -1),
       EventCall(0, "created", b.StartedAt) >>
    \o When(b.ScheduledAt # None, << EventCall(0, "scheduled", b.ScheduledAt) >>)
    \o StateCalls(0, b.State)
    \o When(b.Commit # Nil, << AttrCall(0, "commit", b.Commit) >>)
    \o When(b.Branch # Nil, << AttrCall(0, "branch", b.Branch) >>)
    \o When(b.Author # Nil, << AttrCall(0, "author", b.Author) >>)
    \o When(b.WebURL # Nil, << AttrCall(0, "url", b.WebURL) >>)
    \o MetaDataCalls(b.MetaData)

\* the loop "for _, j := range b.Jobs" from job i on, after the calls in acc
RECURSIVE JobsLoop(_, _, _)
JobsLoop(b, i, acc) ==
    IF i > Len(b.Jobs)
    THEN [calls |-> acc, panic |-> FALSE]
    ELSE LET r == processJob(i, b.Jobs[i])
         IN  IF r.panic
             THEN [calls |-> acc \o r.calls, panic |-> TRUE]
             ELSE JobsLoop(b, i + 1, acc \o r.calls)

\* processBuild(ctx, b) as a whole: every call it makes on the tracer, and
\* whether it panics
processBuild(b) ==
    IF BuildSkipped(b)
    THEN [calls |-> << >>, panic |-> FALSE]
    ELSE LET r == JobsLoop(b, 1, BuildHeadCalls(b))
         IN  IF r.panic
             THEN r
             ELSE [calls |-> r.calls \o << EndCall(0, b.FinishedAt) >>, panic |-> FALSE]


\* ------------------------------------------------------------------------
\* The ingestion cycle (daemon.go: processBuildKite; main.go: main)
\* ------------------------------------------------------------------------

\* the builds the listing may return: any id, with or without each of the
\* two timestamps, finished at any time
ListedBuilds ==
    { MkBuild(id, 1, "passed", s, f, << >>) :
        id \in BuildIDs, s \in {None, 0}, f \in {None} \cup Times }

\* "page := 1" (daemon.go:74)
FirstPage == 1

NoCall == [Page |-> 0, FinishedFrom |-> None, State |-> { }, PerPage |-> 0,
           ok |-> FALSE, NextPage |-> 0]

\* options that follow the latest finish time seen so far in the cycle
ListCallLatest(ok, np) ==
    [Page |-> page, FinishedFrom |-> runFinishedAt,
     State |-> {"passed", "failed", "canceled", "skipped"}, PerPage |-> PerPage,
     ok |-> ok, NextPage |-> np]

\* buildListOptions of the call being made, with the call's outcome
ListCall(ok, np) ==
    [Page |-> page, FinishedFrom |-> lastFinishedAt,
     State |-> {"passed", "failed", "canceled", "skipped"}, PerPage |-> PerPage,
     ok |-> ok, NextPage |-> np]

Running(w) == w.st = "running"

\* sync.WaitGroup counter: Add(1) per dispatch, Done() per finished worker
WgCount == Cardinality({ i \in 1..Len(workers) : Running(workers[i]) })

\* main's loop calls processBuildKite: open the cache file, loadCache, and
\* the locals set before the pagination loop (daemon.go:61-74)
StartCycle ==
    /\ pc = "sleep"
    /\ cachedBuildIDs' = loadCache(cacheFile)
    /\ foffset' = Len(cacheFile)
    /\ runFinishedAt' = lastFinishedAt
    /\ workers' = << >>
    /\ page' = FirstPage
    /\ lastCall' = NoCall
    /\ prevListed' = listed
    /\ listed' = { }
    /\ loaded' = loadCache(cacheFile)
    /\ werr' = werr
    /\ pc' = "call"
    /\ UNCHANGED << lastFinishedAt, cacheFile, respNextPage, idx, towrite, wbuf,
                    upstream, completed, workerVars >>

\* mutant: a failed call restarts the pagination
FetchErrPageRestart == FirstPage

\* the page asked for after a failed call: "continue" leaves page as it is
\* (daemon.go:89-93)
FetchErrPage == page

\* ListByPipeline returns an error (daemon.go:88-93)
FetchErr ==
    /\ pc = "call"
    /\ lastCall' = ListCall(FALSE, 0)
    /\ page' = FetchErrPage
    /\ UNCHANGED << pc, lastFinishedAt, cacheFile, foffset, cachedBuildIDs,
                    runFinishedAt, respNextPage, idx, workers, towrite, wbuf,
                    listed, prevListed, loaded, werr, upstream, completed, workerVars >>

\* ListByPipeline succeeds; the provider names the next page np
FetchOK(np) ==
    /\ pc = "call"
    /\ lastCall' = ListCall(TRUE, np)
    /\ respNextPage' = np
    /\ idx' = 0
    /\ pc' = "range"
    /\ UNCHANGED << lastFinishedAt, cacheFile, foffset, cachedBuildIDs,
                    runFinishedAt, page, workers, towrite, wbuf, listed,
                    prevListed, loaded, werr, upstream, completed, workerVars >>

\* the cache lookup of the loop body (daemon.go:95)
InCache(b) == b.ID \in cachedBuildIDs

\* mutant: the id is not added before the dispatch
ClaimNothing(b) == cachedBuildIDs

\* "add build ID to cache" (daemon.go:102)
Claim(b) == cachedBuildIDs \cup {b.ID}

\* mutant: the candidate replaces runFinishedAt without the After test
NextRunFinishedAtLatest(b) ==
    IF b.FinishedAt # None THEN b.FinishedAt ELSE runFinishedAt

\* the watermark candidate (daemon.go:104-106)
NextRunFinishedAt(b) ==
    IF b.FinishedAt # None /\ b.FinishedAt > runFinishedAt
    THEN b.FinishedAt
    ELSE runFinishedAt

\* mutant: the watermark candidate is taken before the cache lookup, so
\* skipped builds count too
RangeBuildCountSkipped(b) ==
    /\ pc = "range"
    /\ idx < PerPage
    /\ idx' = idx + 1
    /\ listed' = listed \cup {b.ID}
    /\ runFinishedAt' = NextRunFinishedAt(b)
    /\ IF InCache(b)
       THEN UNCHANGED << cachedBuildIDs, workers >>
       ELSE /\ cachedBuildIDs' = Claim(b)
            /\ workers' = Append(workers, [b |-> b, st |-> "running"])
    /\ UNCHANGED << pc, lastFinishedAt, cacheFile, foffset, page, respNextPage,
                    towrite, wbuf, lastCall, prevListed, loaded, werr, upstream, completed, workerVars >>

\* one iteration of "for _, b := range builds", b being the next build of
\* the page (daemon.go:94-110)
RangeBuild(b) ==
    /\ pc = "range"
    /\ idx < PerPage
    /\ idx' = idx + 1
    /\ listed' = listed \cup {b.ID}
    /\ IF InCache(b)
       THEN UNCHANGED << cachedBuildIDs, runFinishedAt, workers >>
       ELSE /\ cachedBuildIDs' = Claim(b)
            /\ runFinishedAt' = NextRunFinishedAt(b)
            /\ workers' = Append(workers, [b |-> b, st |-> "running"])
    /\ UNCHANGED << pc, lastFinishedAt, cacheFile, foffset, page, respNextPage,
                    towrite, wbuf, lastCall, prevListed, loaded, werr, upstream, completed, workerVars >>

\* the page is ranged over: break when there is no next page, else go on
\* with the page the response named (daemon.go:112-116)
RangeEnd ==
    /\ pc = "range"
    /\ IF respNextPage = 0
       THEN pc' = "truncate" /\ page' = page
       ELSE pc' = "call" /\ page' = respNextPage
    /\ UNCHANGED << lastFinishedAt, cacheFile, foffset, cachedBuildIDs,
                    runFinishedAt, respNextPage, idx, workers, towrite, wbuf,
                    lastCall, listed, prevListed, loaded, werr, upstream, completed, workerVars >>

\* writeCache: cacheFile.Truncate(0) (daemon.go:37)
Truncate ==
    /\ pc = "truncate"
    /\ cacheFile' = << >>
    /\ pc' = "seek"
    /\ UNCHANGED << lastFinishedAt, foffset, cachedBuildIDs, runFinishedAt, page,
                    respNextPage, idx, workers, towrite, wbuf, lastCall, listed,
                    prevListed, loaded, werr, upstream, completed, workerVars >>

\* mutant: the seek is left out, the offset stays where loadCache left it
SeekOffsetKept == foffset

\* the offset cacheFile.Seek(0, 0) sets
SeekOffset == 0

\* writeCache: cacheFile.Seek(0, 0) and bufio.NewWriter (daemon.go:41-47)
Seek ==
    /\ pc = "seek"
    /\ foffset' = SeekOffset
    /\ wbuf' = << >>
    /\ towrite' = cachedBuildIDs
    /\ pc' = "write"
    /\ UNCHANGED << lastFinishedAt, cacheFile, cachedBuildIDs, runFinishedAt, page,
                    respNextPage, idx, workers, lastCall, listed, prevListed, loaded, werr, upstream,
                    completed, workerVars >>

\* writeCache: one iteration of "for k := range cacheBuildIDs", in the
\* order Go's map iteration happens to take (daemon.go:49-54)
WriteKey(k) ==
    /\ pc = "write"
    /\ k \in towrite
    /\ LET st == BufWriteString([buf |-> wbuf, file |-> cacheFile, off |-> foffset],
                                k \o << NL >>)
       IN  /\ wbuf' = st.buf
           /\ cacheFile' = st.file
           /\ foffset' = st.off
    /\ towrite' = towrite \ {k}
    /\ UNCHANGED << pc, lastFinishedAt, cachedBuildIDs, runFinishedAt, page,
                    respNextPage, idx, workers, lastCall, listed, prevListed, loaded, werr, upstream,
                    completed, workerVars >>

\* writeCache returns: the deferred w.Flush() (daemon.go:47, 56)
Flush ==
    /\ pc = "write"
    /\ towrite = { }
    /\ LET st == BufFlush([buf |-> wbuf, file |-> cacheFile, off |-> foffset])
       IN  /\ wbuf' = st.buf
           /\ cacheFile' = st.file
           /\ foffset' = st.off
    /\ pc' = "advance"
    /\ UNCHANGED << lastFinishedAt, cachedBuildIDs, runFinishedAt, page,
                    respNextPage, idx, workers, towrite, lastCall, listed,
                    prevListed, loaded, werr, upstream, completed, workerVars >>

\* "lastFinishedAt = runFinishedAt" (daemon.go:127)
Advance ==
    /\ pc = "advance"
    /\ lastFinishedAt' = runFinishedAt
    /\ pc' = "wait"
    /\ UNCHANGED << cacheFile, foffset, cachedBuildIDs, runFinishedAt, page,
                    respNextPage, idx, workers, towrite, wbuf, lastCall, listed,
                    prevListed, loaded, werr, upstream, completed, workerVars >>

\* mutant: processBuildKite returns without waiting
WaitOverNoWait == TRUE

\* a Wait that no number of finished workers satisfies
WaitOverNever == FALSE

\* what wg.Wait() waits for
WaitOver == WgCount = 0

\* wg.Wait() returns, processBuildKite returns, main sleeps
\* (daemon.go:130, main.go:106-107)
Wait ==
    /\ pc = "wait"
    /\ WaitOver
    /\ pc' = "sleep"
    /\ UNCHANGED << lastFinishedAt, cacheFile, foffset, cachedBuildIDs,
                    runFinishedAt, page, respNextPage, idx, workers, towrite,
                    wbuf, lastCall, listed, prevListed, loaded, werr, upstream, completed, workerVars >>

\* the i-th goroutine of the cycle runs processBuild to its end; a panic in
\* it ends the process
WorkerDone(i) ==
    /\ pc # "exited"
    /\ i \in 1..Len(workers)
    /\ Running(workers[i])
    /\ IF processBuild(workers[i].b).panic
       THEN pc' = "exited" /\ UNCHANGED << workers, completed >>
       ELSE /\ workers' = [workers EXCEPT ![i].st = "done"]
            /\ completed' = completed \cup {workers[i].b.ID}
            /\ pc' = pc
    /\ UNCHANGED << lastFinishedAt, cacheFile, foffset, cachedBuildIDs,
                    runFinishedAt, page, respNextPage, idx, towrite, wbuf,
                    lastCall, listed, prevListed, loaded, werr, upstream, workerVars >>

InitCycle ==
    /\ pc = "sleep"
    /\ lastFinishedAt = InitialWatermark
    /\ cacheFile = << >>
    /\ foffset = 0
    /\ cachedBuildIDs = { }
    /\ runFinishedAt = InitialWatermark
    /\ page = 1
    /\ respNextPage = 0
    /\ idx = 0
    /\ workers = << >>
    /\ towrite = { }
    /\ wbuf = << >>
    /\ lastCall = NoCall
    /\ listed = { }
    /\ prevListed = { }
    /\ loaded = { }
    /\ werr = ""
    /\ upstream = { }
    /\ completed = { }

WorkerOff ==
    /\ wpc = "off"
    /\ wb = MkBuild(<< >>, 0, Nil, None, None, << >>)
    /\ wi = 0
    /\ wcalls = << >>

Init == InitCycle /\ WorkerOff

Next ==
    \/ StartCycle
    \/ FetchErr
    \/ \E np \in 0..MaxPages : FetchOK(np)
    \/ \E b \in ListedBuilds : RangeBuild(b)
    \/ RangeEnd
    \/ Truncate
    \/ Seek
    \/ \E k \in towrite : WriteKey(k)
    \/ Flush
    \/ Advance
    \/ Wait
    \/ \E i \in 1..Len(workers) : WorkerDone(i)

Spec == Init /\ [][Next]_vars


\* the steps of processBuildKite's own goroutine that need nothing from
\* outside the process
CycleStep ==
    \/ RangeEnd
    \/ Truncate
    \/ Seek
    \/ \E k \in towrite : WriteKey(k)
    \/ Flush
    \/ Advance
    \/ Wait

\* a worker finishes
SomeWorkerDone == \E i \in 1..Len(workers) : WorkerDone(i)

\* the pages a provider whose chain of pages ends may name after the page
\* asked for: none, or the following one
FollowingPages == {0} \cup ({page + 1} \cap (1..MaxPages))

\* a fetch succeeds
FetchSucceeds == \E np \in FollowingPages : FetchOK(np)

\* main starts a cycle; the run is followed up to the end of the first
\* cycle that claimed a build
StartCycleLive == StartCycle /\ cacheFile = << >>

NextLive ==
    \/ StartCycleLive
    \/ FetchErr
    \/ FetchSucceeds
    \/ \E b \in ListedBuilds : RangeBuild(b)
    \/ CycleStep
    \/ SomeWorkerDone

\* the program under a provider whose fetches do not fail for ever, with
\* goroutines that keep running: the cycle's goroutine takes its next
\* step, a running worker finishes
Fairness ==
    /\ WF_vars(CycleStep)
    /\ WF_vars(FetchSucceeds)
    /\ WF_vars(SomeWorkerDone)

SpecLive == Init /\ [][NextLive]_vars /\ Fairness


\* ------------------------------------------------------------------------
\* Crash and restart
\* ------------------------------------------------------------------------

\* the process dies at any point (goroutines and memory are lost, the cache
\* file and what the backend received stay) and is started again: the
\* package-level initialiser of lastFinishedAt runs anew (daemon.go:20)
CrashRestart(w) ==
    /\ pc' = "sleep"
    /\ lastFinishedAt' = w
    /\ runFinishedAt' = w
    /\ foffset' = 0
    /\ cachedBuildIDs' = { }
    /\ page' = 1
    /\ respNextPage' = 0
    /\ idx' = 0
    /\ workers' = << >>
    /\ towrite' = { }
    /\ wbuf' = << >>
    /\ lastCall' = NoCall
    /\ listed' = { }
    /\ prevListed' = { }
    /\ loaded' = { }
    /\ werr' = ""
    /\ UNCHANGED << cacheFile, upstream, completed, workerVars >>

NextCrash ==
    \/ Next
    \/ \E w \in InitialWatermark..MaxTime : CrashRestart(w)

SpecCrash == Init /\ [][NextCrash]_vars


\* ------------------------------------------------------------------------
\* Storage failures
\* ------------------------------------------------------------------------

\* what a cycle step leaves unchanged besides pc, werr and the file
CycleRest == << lastFinishedAt, cachedBuildIDs, runFinishedAt, page, respNextPage,
                idx, workers, lastCall, listed, prevListed, loaded, upstream,
                completed, workerVars >>

\* log.Fatalf(...) after the storage step e has failed: os.Exit(1), the
\* goroutines and the memory of the cycle are gone, the cache file and what
\* the backend received stay
Fatalf(e) ==
    /\ werr' = e
    /\ pc' = "exited"
    /\ cachedBuildIDs' = { }
    /\ page' = FirstPage
    /\ respNextPage' = 0
    /\ idx' = 0
    /\ workers' = << >>
    /\ towrite' = { }
    /\ wbuf' = << >>
    /\ lastCall' = NoCall
    /\ listed' = { }
    /\ prevListed' = { }
    /\ loaded' = { }
    /\ UNCHANGED << lastFinishedAt, runFinishedAt, upstream, completed, workerVars >>

\* os.OpenFile fails: log.Fatalf (daemon.go:62-65)
OpenFail ==
    /\ pc = "sleep"
    /\ Fatalf("open")
    /\ UNCHANGED << cacheFile, foffset >>

\* cacheFile.Truncate fails: writeCache returns the error, log.Fatalf
\* (daemon.go:37-40, 120-123)
TruncateFail ==
    /\ pc = "truncate"
    /\ Fatalf("truncate")
    /\ UNCHANGED << cacheFile, foffset >>

\* cacheFile.Seek fails: writeCache returns the error, log.Fatalf
\* (daemon.go:41-44, 120-123)
SeekFail ==
    /\ pc = "seek"
    /\ Fatalf("seek")
    /\ UNCHANGED << cacheFile, foffset >>

\* w.WriteString(k + "\n") fails: that is, the flush of the full buffer it
\* makes fails, having written the first n bytes of the buffer; writeCache
\* returns the error, log.Fatalf (daemon.go:50-53, 120-123)
WriteKeyFail(k, n) ==
    /\ pc = "write"
    /\ k \in towrite
    /\ Len(k) + 1 > BufSize - Len(wbuf)
    /\ n < BufSize
    /\ LET full == wbuf \o SubSeq(k \o << NL >>, 1, BufSize - Len(wbuf))
       IN  /\ cacheFile' = IF n = 0 THEN cacheFile
                           ELSE WriteAt(cacheFile, foffset, SubSeq(full, 1, n))
           /\ foffset' = foffset + n
    /\ Fatalf("write")

\* where writeCache's caller goes on after the deferred w.Flush() has
\* failed: the error of a deferred call is dropped, writeCache returns nil
AfterFlushFail == "advance"

\* the deferred w.Flush() fails, having written the first n bytes of the
\* buffer (daemon.go:47, 56); the one failure of a run that leaves the
\* process alive, taken at most once in a run, in a cycle that found the
\* cache empty
FlushFail(n) ==
    /\ pc = "write"
    /\ werr = ""
    /\ loaded = { }
    /\ towrite = { }
    /\ wbuf # << >>
    /\ n < Len(wbuf)
    /\ cacheFile' = IF n = 0 THEN cacheFile
                    ELSE WriteAt(cacheFile, foffset, SubSeq(wbuf, 1, n))
    /\ foffset' = foffset + n
    /\ werr' = "flush"
    /\ pc' = AfterFlushFail
    /\ UNCHANGED << towrite, wbuf, CycleRest >>

NextFail ==
    \/ Next
    \/ OpenFail
    \/ TruncateFail
    \/ SeekFail
    \/ \E k \in towrite, n \in 0..(BufSize - 1) : WriteKeyFail(k, n)
    \/ \E n \in 0..MaxFlushed : FlushFail(n)

SpecFail == Init /\ [][NextFail]_vars

\* ------------------------------------------------------------------------
\* The provider: builds that finish while the exporter runs
\* ------------------------------------------------------------------------

\* the n-th build of the pipeline, finished at f; build numbers grow with
\* the time of creation
UpID(n) == << "b", DigitStr(n) >>

UpBuild(n, f) == MkBuild(UpID(n), n, "passed", 0, f, << >>)

\* the terminal builds the filter FinishedFrom lets through: those finished
\* at or after it
Matching(from) == { b \in upstream : b.FinishedAt >= from }

\* the listing: newest build first
RECURSIVE NewestFirst(_)
NewestFirst(S) ==
    IF S = { }
    THEN << >>
    ELSE LET m == CHOOSE b \in S : \A c \in S : c.Number <= b.Number
         IN  << m >> \o NewestFirst(S \ {m})

\* the builds of the page now asked for, PerPage to a page
PageNow ==
    LET all == NewestFirst(Matching(lastFinishedAt))
        last == IF page * PerPage < Len(all) THEN page * PerPage ELSE Len(all)
    IN  SubSeq(all, (page - 1) * PerPage + 1, last)

\* resp.NextPage: the following page while there are builds beyond this one
NextPageNow ==
    IF Cardinality(Matching(lastFinishedAt)) > page * PerPage THEN page + 1 ELSE 0

\* a build of the pipeline reaches a terminal state, at a time not before
\* the time any other did; the page the cycle is ranging over was made when
\* it was fetched, so the step is taken before the fetch or after the range
BuildFinishes(n, f) ==
    /\ pc # "range"
    /\ \A b \in upstream : b.Number # n /\ b.FinishedAt <= f
    /\ upstream' = upstream \cup { UpBuild(n, f) }
    /\ UNCHANGED << pc, lastFinishedAt, cacheFile, foffset, cachedBuildIDs,
                    runFinishedAt, page, respNextPage, idx, workers, towrite, wbuf,
                    lastCall, listed, prevListed, loaded, werr, completed, workerVars >>

\* ListByPipeline succeeds with the page the provider has now
FetchUp == NextPageNow <= MaxPages /\ FetchOK(NextPageNow)

\* one iteration of the range over the fetched page
RangeUp == idx < Len(PageNow) /\ RangeBuild(PageNow[idx + 1])

\* the fetched page is ranged over
RangeEndUp == idx = Len(PageNow) /\ RangeEnd

\* the workers finish in the order they were started, while the cycle
\* waits for them
WorkerDoneInTurn ==
    /\ pc = "wait"
    /\ \E i \in 1..Len(workers) :
          /\ \A k \in 1..(i - 1) : ~Running(workers[k])
          /\ WorkerDone(i)

\* the range over the map visits the ids in the order of the build numbers,
\* one of the orders Go may take
WriteKeyInTurn ==
    \E n \in 1..MaxUpstream :
        /\ \A m \in 1..(n - 1) : UpID(m) \notin towrite
        /\ WriteKey(UpID(n))

NextUp ==
    \/ StartCycle
    \/ FetchUp
    \/ RangeUp
    \/ RangeEndUp
    \/ Truncate
    \/ Seek
    \/ WriteKeyInTurn
    \/ Flush
    \/ Advance
    \/ Wait
    \/ WorkerDoneInTurn
    \/ \E n \in 1..MaxUpstream, f \in InitialWatermark..MaxTime : BuildFinishes(n, f)

SpecUp == Init /\ [][NextUp]_vars


\* ------------------------------------------------------------------------
\* One worker goroutine, call by call (build.go, unnamed/part_000)
\* ------------------------------------------------------------------------

\* a job with both timestamps set and a name, every other optional field
\* absent
FullJob == MkJob("test", Nil, 3, 4)

\* the values of *State a followed record may carry besides "passed" and
\* "failed"
OtherStates == {Nil, "finished", "canceled"}

\* agent metadata strings, as sequences of characters
KV   == << "k", "=", "v" >>
Bare == << "m" >>
ABC  == << "a", "=", "b", "=", "c" >>
OnlyEq == << "=" >>

MetadataLists == { << KV, Bare, ABC >>, << ABC, KV >>, << OnlyEq >>, << Bare, << >> >> }

\* a job with every optional field present
AllFieldsJob ==
    [FullJob EXCEPT !.State = "passed", !.CreatedAt = 1, !.ScheduledAt = 0,
                    !.RunnableAt = 2, !.LogsURL = "logs", !.StepKey = "step",
                    !.ExitStatus = 0,
                    !.Agent = [Name |-> "agent", Hostname |-> "host",
                               IPAddress |-> "ip", Version |-> "v3",
                               Metadata |-> << KV >>]]

\* the jobs a followed worker may meet: passed, named or not, with or
\* without each of the two timestamps; and, named and both timestamps set,
\* with another state or none, with agent metadata, with or without each of
\* createdAt, scheduledAt, runnableAt, and failed after two retries
WorkerJobs ==
    { MkJob(n, "passed", s, f) :
        n \in {Nil, "test"}, s \in {None, 2}, f \in {None, 4} }
    \cup { [FullJob EXCEPT !.State = st] : st \in OtherStates }
    \cup { [FullJob EXCEPT !.Agent.Metadata = m] : m \in MetadataLists }
    \cup { [FullJob EXCEPT !.CreatedAt = c, !.ScheduledAt = sc, !.RunnableAt = r] :
             c \in {None, 1}, sc \in {None, 0}, r \in {None, 2} }
    \cup { [FullJob EXCEPT !.State = "failed", !.RetriesCount = 2, !.Retried = TRUE] }
    \cup { AllFieldsJob }

RECURSIVE SeqsUpTo(_, _)
SeqsUpTo(S, n) ==
    IF n = 0
    THEN { << >> }
    ELSE LET shorter == SeqsUpTo(S, n - 1)
         IN  shorter \cup { Append(q, x) : q \in shorter, x \in S }

\* the builds a followed worker may be given: passed or failed, with or
\* without each of the two timestamps, with up to MaxJobs jobs; and, both
\* timestamps set, with another state or none and at most one job
WorkerBuilds ==
    { MkBuild(<< "a", "a" >>, 12, st, s, f, jobs) :
        st \in {"passed", "failed"}, s \in {None, 1}, f \in {None, 5},
        jobs \in SeqsUpTo(WorkerJobs, MaxJobs) }
    \cup { MkBuild(<< "a", "a" >>, 12, st, 1, 5, jobs) :
             st \in OtherStates, jobs \in SeqsUpTo(WorkerJobs, 1) }

\* processBuild up to the loop over the jobs (build.go:14-73)
WEntry ==
    /\ wpc = "entry"
    /\ IF BuildSkipped(wb)
       THEN wpc' = "done" /\ wcalls' = wcalls
       ELSE wpc' = "jobs" /\ wcalls' = wcalls \o BuildHeadCalls(wb)
    /\ UNCHANGED << wb, wi, cycleVars >>

\* one iteration of the loop: processJob on the next job (build.go:76-78)
WJob ==
    /\ wpc = "jobs"
    /\ wi < Len(wb.Jobs)
    /\ LET r == processJob(wi + 1, wb.Jobs[wi + 1])
       IN  /\ wcalls' = wcalls \o r.calls
           /\ wpc' = IF r.panic THEN "panic" ELSE "jobs"
    /\ wi' = wi + 1
    /\ UNCHANGED << wb, cycleVars >>

\* buildSpan.End and the return (build.go:80-81)
WEnd ==
    /\ wpc = "jobs"
    /\ wi = Len(wb.Jobs)
    /\ wcalls' = Append(wcalls, EndCall(0, wb.FinishedAt))
    /\ wpc' = "done"
    /\ UNCHANGED << wb, wi, cycleVars >>

InitWorker ==
    /\ InitCycle
    /\ wpc = "entry"
    /\ wb \in WorkerBuilds
    /\ wi = 0
    /\ wcalls = << >>

NextWorker == WEntry \/ WJob \/ WEnd

SpecWorker == InitWorker /\ [][NextWorker]_vars

\* the worker followed call by call makes the calls of processBuild
WorkerAgrees ==
    /\ wpc = "done"  => wcalls = processBuild(wb).calls /\ ~processBuild(wb).panic
    /\ wpc = "panic" => wcalls = processBuild(wb).calls /\ processBuild(wb).panic


\* ------------------------------------------------------------------------
\* Claims
\* ------------------------------------------------------------------------

WorkerIDs == { workers[i].b.ID : i \in 1..Len(workers) }

\* finishedAt of the builds dispatched in the cycle, where set
DispatchedFinishedAt ==
    { workers[i].b.FinishedAt : i \in 1..Len(workers) } \ {None}

MaxOf(S) == CHOOSE x \in S : \A y \in S : y <= x

\* C1: when processBuildKite has returned (main sleeps before the next
\* cycle), every worker the cycle dispatched has completed, so no worker is
\* running when the next cycle starts.
C1_ReturnsAfterWorkers ==
    pc = "sleep" => \A i \in 1..Len(workers) : ~Running(workers[i])

\* a cycle that dispatched workers has returned
C1_Witness ==
    /\ pc = "sleep"
    /\ Len(workers) = 2
    /\ \A i \in 1..Len(workers) : ~Running(workers[i])

\* C2: the dedup file is rewritten and the watermark advanced only after
\* all workers of the cycle have completed: in no state is the file already
\* rewritten (writeCache has returned) or lastFinishedAt already assigned
\* while a worker of the cycle is still running.
C2_PersistAfterWorkers ==
    pc \in {"advance", "wait"} => WgCount = 0

\* C3: a cycle whose listing returns only builds the previous cycle's
\* listing returned, and which loads what that cycle persisted, dispatches
\* no worker.
C3_Idempotent ==
    listed \subseteq prevListed => workers = << >>

\* the second cycle has drained the same non-empty listing as the first
C3_Witness ==
    /\ pc = "truncate"
    /\ listed = BuildIDs
    /\ prevListed = BuildIDs
    /\ workers = << >>

\* C4: lastFinishedAt never decreases.
C4_WatermarkMonotonic ==
    [][lastFinishedAt' >= lastFinishedAt]_vars

\* the watermark has advanced, and a later cycle that dispatched a build
\* finished before it has set the watermark again
C4_Witness ==
    /\ pc = "wait"
    /\ lastFinishedAt > InitialWatermark
    /\ \E i \in 1..Len(workers) :
          /\ workers[i].b.FinishedAt # None
          /\ workers[i].b.FinishedAt < lastFinishedAt
    /\ \A i \in 1..Len(workers) : workers[i].b.FinishedAt < lastFinishedAt

\* C5: a listed build whose startedAt or finishedAt is unset is not added
\* to the Dedup Set, neither in memory nor in the file the cycle leaves.
C5_IncompleteNotCached ==
    \A i \in 1..Len(workers) :
        BuildSkipped(workers[i].b) =>
            /\ workers[i].b.ID \notin cachedBuildIDs
            /\ pc = "sleep" => workers[i].b.ID \notin loadCache(cacheFile)

Started(span) == \E k \in 1..Len(wcalls) : wcalls[k].op = "Start" /\ wcalls[k].span = span

JobSkipped(j) == j.StartedAt = None \/ j.FinishedAt = None

\* C6, the skipping alone: a build with a timestamp unset starts no span,
\* a job with a timestamp unset starts no span of its own.
C6_NoSpanForIncomplete ==
    /\ BuildSkipped(wb) => \A k \in 1..Len(wcalls) : wcalls[k].op # "Start"
    /\ \A i \in 1..Len(wb.Jobs) : JobSkipped(wb.Jobs[i]) => ~Started(i)

\* the worker has left processBuild, by return or by panic
WorkerEnded == wpc \in {"done", "panic"}

\* C6: a build with startedAt or finishedAt unset starts no span at all; a
\* job with startedAt or finishedAt unset starts no span of its own, and
\* once the worker of its build (both timestamps set) has ended, the build
\* span and the span of every other job with both timestamps set have been
\* started.
C6_SkipIncompleteSpans ==
    /\ C6_NoSpanForIncomplete
    /\ \A i \in 1..Len(wb.Jobs) :
          (JobSkipped(wb.Jobs[i]) /\ ~BuildSkipped(wb) /\ WorkerEnded) =>
              /\ Started(0)
              /\ \A k \in 1..Len(wb.Jobs) : ~JobSkipped(wb.Jobs[k]) => Started(k)

\* the page a call must ask for, given the call before it
ExpectedPage ==
    IF lastCall = NoCall THEN FirstPage
    ELSE IF lastCall.ok THEN lastCall.NextPage
    ELSE lastCall.Page

\* C7: the first call of a cycle asks for page 1, a call after a failed
\* call asks for the same page again, a call after a successful one asks
\* for the page that response named; and the cache file is rewritten only
\* after a successful response that named no next page.
C7_Pagination ==
    /\ [][(pc = "call" /\ (pc' = "range" \/ lastCall' # lastCall))
             => lastCall'.Page = ExpectedPage]_vars
    /\ [](pc \in {"truncate", "seek", "write", "advance", "wait"}
             => lastCall.ok /\ lastCall.NextPage = 0)

\* the fetch of page 2 has failed and page 2 is about to be asked for again
C7_Witness ==
    /\ pc = "call"
    /\ lastCall.Page = 2
    /\ ~lastCall.ok
    /\ page = 2

\* C8: no two workers of a cycle have the same build id, the id of every
\* dispatched build is in the in-memory Dedup Set, and every listed id that
\* was not loaded from the file has exactly one worker.
C8_AtMostOnceDispatch ==
    /\ \A i, j \in 1..Len(workers) : workers[i].b.ID = workers[j].b.ID => i = j
    /\ WorkerIDs \subseteq cachedBuildIDs
    /\ \A id \in listed \ loaded :
          Cardinality({ i \in 1..Len(workers) : workers[i].b.ID = id }) = 1

\* the same unseen id was returned twice on the first page
C8_Witness ==
    /\ pc = "range"
    /\ lastCall.Page = 1
    /\ idx = 2
    /\ Cardinality(listed) = 1
    /\ loaded = { }
    /\ Len(workers) = 1

\* C9 as stated: the cycle sets lastFinishedAt to the maximum finishedAt of
\* the builds it dispatched, and leaves it unchanged if it dispatched none.
C9_WatermarkIsMaxDispatched ==
    [][(pc = "advance" /\ pc' = "wait") =>
          lastFinishedAt' = IF DispatchedFinishedAt = { }
                            THEN lastFinishedAt
                            ELSE MaxOf(DispatchedFinishedAt)]_vars

\* C9 amended: the cycle sets lastFinishedAt to the maximum of its value at
\* the start of the cycle and the finishedAt of the builds it dispatched.
C9_WatermarkIsMaxWithPrevious ==
    [][(pc = "advance" /\ pc' = "wait") =>
          lastFinishedAt' = MaxOf(DispatchedFinishedAt \cup {lastFinishedAt})]_vars

\* a cycle has set the watermark having dispatched only builds finished
\* before it
C9_Witness ==
    /\ pc = "wait"
    /\ DispatchedFinishedAt # { }
    /\ \A t \in DispatchedFinishedAt : t < lastFinishedAt

\* C10: after a crash and restart, every build id recorded in the cache
\* file is one whose worker ran to completion.
C10_NoLostBuild ==
    pc = "sleep" => (loadCache(cacheFile) \cap BuildIDs) \subseteq completed

\* C11: whenever opening the cache file or a step of writing it (truncate,
\* seek, write of an id, final flush) has failed, the process has
\* terminated; the cycle does not go on to advance the watermark.
C11_StorageErrorsFatal ==
    werr # "" => pc = "exited"

\* C11 without the final flush: a failed open, truncate, seek or write of
\* an id ends the process.
C11_ReturnedErrorsFatal ==
    werr \in {"open", "truncate", "seek", "write"} => pc = "exited"


\* the SetStatus calls made on a span, as << code, message >> pairs
RECURSIVE StatusesFrom(_, _)
StatusesFrom(span, k) ==
    IF k > Len(wcalls) THEN << >>
    ELSE (IF wcalls[k].op = "SetStatus" /\ wcalls[k].span = span
          THEN << << wcalls[k].key, wcalls[k].val >> >> ELSE << >>)
         \o StatusesFrom(span, k + 1)

Ended(span) == \E k \in 1..Len(wcalls) : wcalls[k].op = "End" /\ wcalls[k].span = span

\* the record a span is made from: the build for span 0, the i-th job for
\* span i
RecordOf(span) == IF span = 0 THEN wb ELSE wb.Jobs[span]

\* C12: on every span that has been ended, of the build and of each job,
\* the status set is Error with the state as message for state "failed", Ok
\* with the state as message for "passed" and "finished", Unset with the
\* state as message for any other state, and no status is set at all (the
\* span keeps Unset) when the state is absent.
C12_StatusMapping ==
    \A span \in 0..Len(wb.Jobs) :
        Ended(span) =>
            LET st == RecordOf(span).State
            IN  StatusesFrom(span, 1) =
                    IF st = Nil THEN << >>
                    ELSE IF st = "failed" THEN << << "Error", st >> >>
                    ELSE IF st = "passed" \/ st = "finished" THEN << << "Ok", st >> >>
                    ELSE << << "Unset", st >> >>

\* a passed build whose span has ended with a failed job, a finished job, a
\* canceled job; and a build without state whose span has ended
C12_Witness ==
    /\ Ended(0)
    /\ \/ /\ wb.State = "passed"
          /\ Len(wb.Jobs) = 2
          /\ wb.Jobs[1].State = "failed" /\ Ended(1)
          /\ wb.Jobs[2].State = "finished" /\ Ended(2)
       \/ /\ wb.State = Nil
          /\ Len(wb.Jobs) = 1
          /\ wb.Jobs[1].State = "canceled" /\ Ended(1)


\* the attribute keys processJob sets from fields other than Agent.Metadata
FixedJobKeys ==
    { "schedule_duration_ms", "create_duration_ms", "runnable_duration_ms", "state",
      "retry_count", "retried", "soft_failed", "url", "step_key", "exit_status",
      "agent_name", "agent_hostname", "agent_ip", "agent_version" }

\* the attributes set on a span from the agent metadata, as << key, value >>
\* pairs in the order of the calls
RECURSIVE MetaAttrsFrom(_, _)
MetaAttrsFrom(span, k) ==
    IF k > Len(wcalls) THEN << >>
    ELSE (IF /\ wcalls[k].op = "SetAttributes"
             /\ wcalls[k].span = span
             /\ wcalls[k].key \notin FixedJobKeys
          THEN << << wcalls[k].key, wcalls[k].val >> >> ELSE << >>)
         \o MetaAttrsFrom(span, k + 1)

\* the number of "=" characters of a metadata string
EqCount(m) == Cardinality({ p \in 1..Len(m) : m[p] = "=" })

\* the attributes a metadata list must give: one for each string with
\* exactly one "=", the key before it, the value after it
RECURSIVE ExpectedMetaAttrs(_, _)
ExpectedMetaAttrs(meta, k) ==
    IF k > Len(meta) THEN << >>
    ELSE (IF EqCount(meta[k]) = 1
          THEN LET p == CHOOSE q \in 1..Len(meta[k]) : meta[k][q] = "="
               IN  << << "agent_" \o Str(SubSeq(meta[k], 1, p - 1)),
                         Str(SubSeq(meta[k], p + 1, Len(meta[k]))) >> >>
          ELSE << >>)
         \o ExpectedMetaAttrs(meta, k + 1)

\* C13: a job span that has been started has been ended, and the attributes
\* set on it from the agent metadata are, in order, agent_<key> = <value>
\* for exactly the metadata strings that contain exactly one "="; strings
\* with none or with two or more give no attribute and stop nothing.
C13_AgentMetadata ==
    \A i \in 1..Len(wb.Jobs) :
        Started(i) =>
            /\ Ended(i)
            /\ MetaAttrsFrom(i, 1) = ExpectedMetaAttrs(wb.Jobs[i].Agent.Metadata, 1)

\* the span of a job with metadata k=v, m, a=b=c has been ended with the one
\* attribute agent_k = v, and so has the span of a job with a=b=c, k=v
C13_Witness ==
    /\ Len(wb.Jobs) = 2
    /\ wb.Jobs[1].Agent.Metadata = << KV, Bare, ABC >>
    /\ wb.Jobs[2].Agent.Metadata = << ABC, KV >>
    /\ Ended(1) /\ Ended(2)
    /\ MetaAttrsFrom(1, 1) = << << "agent_k", "v" >> >>
    /\ MetaAttrsFrom(2, 1) = << << "agent_k", "v" >> >>


\* the positions of the calls op on a span
CallsOn(op, span) ==
    { k \in 1..Len(wcalls) : wcalls[k].op = op /\ wcalls[k].span = span }

\* there is exactly one call op on the span, and it satisfies P
OneCall(op, span, P(_)) ==
    /\ Cardinality(CallsOn(op, span)) = 1
    /\ \A k \in CallsOn(op, span) : P(wcalls[k])

\* the status a state alone gives
StatusFor(st) ==
    IF st = Nil THEN << >>
    ELSE IF st = "failed" THEN << << "Error", st >> >>
    ELSE IF st = "passed" \/ st = "finished" THEN << << "Ok", st >> >>
    ELSE << << "Unset", st >> >>

\* the spans of the followed build have the shape of C14
SpanShape ==
    /\ LET RootStart(c) == c.key = Itoa(wb.Number) /\ c.ts = wb.StartedAt /\ c.parent = -1
           RootEnd(c)   == c.ts = wb.FinishedAt
       IN  /\ OneCall("Start", 0, RootStart)
           /\ OneCall("End", 0, RootEnd)
    /\ StatusesFrom(0, 1) = StatusFor(wb.State)
    /\ \A i \in 1..Len(wb.Jobs) :
          LET j == wb.Jobs[i]
              JobStart(c) == c.key = j.Name /\ c.ts = j.StartedAt /\ c.parent = 0
              JobEnd(c)   == c.ts = j.FinishedAt
              Retry(c)    == c.key = "retry_count" => c.val = j.RetriesCount
          IN  IF JobSkipped(j)
              THEN CallsOn("Start", i) = { }
              ELSE /\ OneCall("Start", i, JobStart)
                   /\ OneCall("End", i, JobEnd)
                   /\ \E k \in CallsOn("SetAttributes", i) : wcalls[k].key = "retry_count"
                   /\ \A k \in CallsOn("SetAttributes", i) : Retry(wcalls[k])
                   /\ StatusesFrom(i, 1) = StatusFor(j.State)

\* C14: once the worker of a build with startedAt and finishedAt set has
\* ended, there is exactly one root span, named with the decimal number of
\* the build, started at startedAt and ended at finishedAt, with the status
\* of the build's state; and for each job with both timestamps set exactly
\* one child span named with the job's name, started and ended at the
\* job's timestamps, carrying the job's retry_count and the status of the
\* job's state.
C14_SpanShape ==
    (WorkerEnded /\ ~BuildSkipped(wb)) => SpanShape

\* C14 for the workers that returned, which are those that met no job
\* without a name among the jobs with both timestamps set.
C14_SpanShapeOnReturn ==
    (wpc = "done" /\ ~BuildSkipped(wb)) => SpanShape


\* the cycle is past writeCache, or between two cycles
Persisted == pc \in {"advance", "wait", "sleep"}

\* C15: once a cycle has written the cache file, the set a load reads back
\* from it is exactly the ids loaded at the start of the cycle together
\* with the ids claimed in the cycle, each on one line of its own and
\* nothing else in the file; so the set read back never shrinks.
C15_RoundTrip ==
    Persisted =>
        /\ loadCache(cacheFile) = loaded \cup WorkerIDs
        /\ Len(ScanLines(cacheFile, 1, << >>)) = Cardinality(loaded \cup WorkerIDs)
        /\ loaded \subseteq loadCache(cacheFile)

\* a cycle that loaded one id and claimed another has written the file, and
\* both ids are read back
C15_Witness ==
    /\ pc = "sleep"
    /\ Cardinality(loaded) = 1
    /\ Cardinality(WorkerIDs) = 1
    /\ loaded \cap WorkerIDs = { }
    /\ loadCache(cacheFile) = loaded \cup WorkerIDs


\* the cycle is in its pagination loop
Paging == pc \in {"call", "range"}

\* C16: while a cycle is paging lastFinishedAt does not change; every
\* request made carries lastFinishedAt as FinishedFrom, the four terminal
\* states and the page size, and agrees in these with the request before
\* it in the cycle; and a step of a worker changes neither lastFinishedAt
\* nor the dedup set nor the cache file.
C16_RequestsFixed ==
    [][ /\ Paging => lastFinishedAt' = lastFinishedAt
        /\ (lastCall' # lastCall /\ lastCall' # NoCall) =>
              /\ Paging
              /\ lastCall'.FinishedFrom = lastFinishedAt
              /\ lastCall'.State = {"passed", "failed", "canceled", "skipped"}
              /\ lastCall'.PerPage = PerPage
              /\ lastCall # NoCall =>
                    /\ lastCall'.FinishedFrom = lastCall.FinishedFrom
                    /\ lastCall'.State = lastCall.State
                    /\ lastCall'.PerPage = lastCall.PerPage
        /\ (\E i \in 1..Len(workers) : WorkerDone(i)) =>
              /\ lastFinishedAt' = lastFinishedAt
              /\ cachedBuildIDs' = cachedBuildIDs
              /\ cacheFile' = cacheFile
      ]_vars

\* a request for a later page has been made with the watermark of the
\* start of the cycle, after a build finished later than it was ranged
\* over and while a worker has finished
C16_Witness ==
    /\ Paging
    /\ lastCall.Page > FirstPage
    /\ runFinishedAt > lastFinishedAt
    /\ lastCall.FinishedFrom = lastFinishedAt
    /\ \E i \in 1..Len(workers) : ~Running(workers[i])


\* the positions of the calls on job spans
JobCalls == { k \in 1..Len(wcalls) : wcalls[k].span > 0 }

\* C17: in the calls of one worker, the start of the build span comes
\* before every call on a job span; a job span is started with the build
\* span as parent; job spans are started in the order of the jobs
\* sequence, and a job span is ended before the next one is started; the
\* end of the build span comes after every call on a job span, and is the
\* last call.
C17_CallOrder ==
    /\ \A k \in JobCalls : \E k0 \in CallsOn("Start", 0) : k0 < k
    /\ \A k \in JobCalls : wcalls[k].op = "Start" => wcalls[k].parent = 0
    /\ \A k1, k2 \in JobCalls :
          (wcalls[k1].op = "Start" /\ wcalls[k2].op = "Start" /\ k1 < k2) =>
              /\ wcalls[k1].span < wcalls[k2].span
              /\ \E e \in CallsOn("End", wcalls[k1].span) : k1 < e /\ e < k2
    /\ \A e \in CallsOn("End", 0) :
          /\ e = Len(wcalls)
          /\ \A k \in JobCalls : k < e

\* a worker has ended the build span after two job spans, the first ended
\* before the second was started
C17_Witness ==
    /\ wpc = "done"
    /\ CallsOn("End", 0) # { }
    /\ \E s1 \in CallsOn("Start", 1), e1 \in CallsOn("End", 1), s2 \in CallsOn("Start", 2) :
          s1 < e1 /\ e1 < s2


\* the values set on a span under an attribute key
AttrVals(span, key) ==
    { wcalls[k].val : k \in { q \in CallsOn("SetAttributes", span) : wcalls[q].key = key } }

\* the attribute is set, once and to v, iff present
AttrIff(span, key, present, v) ==
    AttrVals(span, key) = IF present THEN {v} ELSE { }

\* the three duration attributes of every ended job span are set exactly
\* when the timestamps they are computed from are present, and hold the
\* difference of the two timestamps (a number of milliseconds) times unit
Durations(unit) ==
    \A i \in 1..Len(wb.Jobs) :
        Ended(i) =>
            LET j == wb.Jobs[i]
            IN  /\ AttrIff(i, "schedule_duration_ms",
                           j.ScheduledAt # None /\ j.CreatedAt # None,
                           (j.CreatedAt - j.ScheduledAt) * unit)
                /\ AttrIff(i, "create_duration_ms",
                           j.CreatedAt # None /\ j.RunnableAt # None,
                           (j.RunnableAt - j.CreatedAt) * unit)
                /\ AttrIff(i, "runnable_duration_ms",
                           j.RunnableAt # None,
                           (j.StartedAt - j.RunnableAt) * unit)

\* C18: on every ended job span schedule_duration_ms is set iff scheduledAt
\* and createdAt are present, create_duration_ms iff createdAt and
\* runnableAt are present, runnable_duration_ms iff runnableAt is present,
\* and each holds the difference of its two timestamps in milliseconds.
C18_DurationsInMs == Durations(1)

\* C18 with the values the code computes: the same attributes under the
\* same conditions, each holding the difference in microseconds.
C18_DurationsInUs == Durations(NsPerMs \div NsPerUs)


\* the cycle has returned with the cache file holding the dedup set and the
\* watermark advanced to the latest finish time of the cycle
Returned ==
    /\ pc = "sleep"
    /\ loadCache(cacheFile) = cachedBuildIDs
    /\ lastFinishedAt = runFinishedAt

\* C19: when fetches do not fail for ever, the chain of next pages ends and
\* workers finish, a cycle that is fetching eventually returns, the dedup
\* set written and the watermark advanced; and as long as the fetch of a
\* page fails the cycle stays at that fetch, a step of the pagination loop
\* changing neither the cache file nor the watermark.
C19_TerminatesOrStalls ==
    /\ (pc = "call") ~> Returned
    /\ [][ /\ FetchErr => (pc' = "call" /\ page' = page)
           /\ Paging => (cacheFile' = cacheFile /\ lastFinishedAt' = lastFinishedAt)
         ]_vars

\* a cycle has returned after a failed fetch, a second page and a finished
\* worker, the watermark advanced
C19_Witness ==
    /\ Returned
    /\ lastCall.Page > FirstPage
    /\ workers # << >>
    /\ WgCount = 0
    /\ lastFinishedAt > InitialWatermark


\* C20: when a cycle has returned, every build that is terminal at the
\* provider with finishedAt at or after the initial watermark and strictly
\* before lastFinishedAt is in the dedup set the cache file holds.
C20_NoBuildMissed ==
    pc = "sleep" =>
        \A b \in upstream :
            (InitialWatermark <= b.FinishedAt /\ b.FinishedAt < lastFinishedAt) =>
                b.ID \in loadCache(cacheFile)


\* the attribute of a span that an optional string or number field gives:
\* set, once and to the field, iff the field is present
OptionalAttrs(i) ==
    LET j == wb.Jobs[i]
    IN  /\ AttrIff(i, "state", j.State # Nil, j.State)
        /\ AttrIff(i, "url", j.LogsURL # Nil, j.LogsURL)
        /\ AttrIff(i, "step_key", j.StepKey # Nil, j.StepKey)
        /\ AttrIff(i, "exit_status", j.ExitStatus # None, j.ExitStatus)
        /\ AttrIff(i, "agent_name", j.Agent.Name # Nil, j.Agent.Name)
        /\ AttrIff(i, "agent_hostname", j.Agent.Hostname # Nil, j.Agent.Hostname)
        /\ AttrIff(i, "agent_ip", j.Agent.IPAddress # Nil, j.Agent.IPAddress)
        /\ AttrIff(i, "agent_version", j.Agent.Version # Nil, j.Agent.Version)
        /\ AttrVals(i, "schedule_duration_ms") # { } <=>
               (j.ScheduledAt # None /\ j.CreatedAt # None)
        /\ AttrVals(i, "create_duration_ms") # { } <=>
               (j.CreatedAt # None /\ j.RunnableAt # None)
        /\ AttrVals(i, "runnable_duration_ms") # { } <=> j.RunnableAt # None

\* processJob on the i-th job has made exactly one span, started and ended,
\* with the attributes of the optional fields that are present and no others
JobSpanWhole(i) ==
    /\ Cardinality(CallsOn("Start", i)) = 1
    /\ Cardinality(CallsOn("End", i)) = 1
    /\ OptionalAttrs(i)

\* the jobs processJob has been called on that have both timestamps set
ProcessedJobs == { i \in 1..wi : ~JobSkipped(wb.Jobs[i]) }

\* C21: processJob never aborts the worker, and for every job with
\* startedAt and finishedAt set that it has been called on it has made
\* exactly one span, whichever optional fields of the job (name included)
\* are absent, an absent field only leaving out its attribute.
C21_AbsentFieldsHarmless ==
    /\ wpc # "panic"
    /\ \A i \in ProcessedJobs : JobSpanWhole(i)

\* C21 for the jobs that have a name: every optional field other than the
\* name may be absent.
C21_AbsentFieldsHarmlessNamed ==
    \A i \in ProcessedJobs : wb.Jobs[i].Name # Nil => JobSpanWhole(i)
====
